---- MODULE Spec2Model ----
(***************************************************************************)
(* sqlitepp: the Database / Statement / ResultSet wrapper around the       *)
(* SQLite3 C interface.  Two implementations live in the repository:       *)
(*   "cc"  - src/src/sqlitepp/sqlitepp.cc  (Statement::execute/close,      *)
(*           ResultSet::next and the reads on ResultSet)                   *)
(*   "cpp" - src/src/sqlitepp.cpp          (Statement::step/finalize and   *)
(*           the reads on Statement)                                       *)
(* A behaviour runs one of the two; `variant` says which.                  *)
(*                                                                         *)
(* The engine is modelled by what the wrapper can observe of it: a         *)
(* connection that is none/live/closed, and per compiled handle its        *)
(* liveness, the number of rows of its result and a cursor.                *)
(***************************************************************************)
EXTENDS Integers, Sequences, FiniteSets, TLC

\* ---- bounds -------------------------------------------------------------
MaxRows == 2         \* rows of a query result
MaxOwners == 2       \* std::shared_ptr<Statement> copies held by the caller
MaxResultSets == 2   \* ResultSet objects held by the caller per Statement

\* The Statement under observation: one object at a time, with all its
\* aliases; Database::prepare makes a new one once the old one is destroyed.
Stmts == {1}
Variants == {"cc", "cpp"}

\* Engine status words (sqlite3.h result codes, by name).
StepErrors == {"BUSY", "MISUSE"}
StepInputs == {"advance"} \cup StepErrors
BindStatus == {"OK", "RANGE", "NOMEM", "MISUSE"}
BindKinds == {"int", "double", "text"}
\* "Bind index out of range: " has MsgLen characters before its terminator.
MsgLen == 25
\* indexes given to bind: an ordinary one, and one for which the message
\* pointer of handleBindResult lies beyond the literal
BindIndexes == {1, MsgLen + 2}
\* what constructing the exception from a pointer outside the literal can
\* do: an out_of_range with arbitrary text, or the end of the process
WildPointerOutcomes == {"out_of_range", "crash"}
OpenStatus == {"OK", "CANTOPEN", "NOMEM"}
\* what sqlite3_finalize returns: OK, or the error of the last evaluation
FinalizeStatus == {"OK", "CONSTRAINT"}
NULL == -1

VARIABLES
  variant,        \* which implementation is linked
  dbLife,         \* Database object: "alive", "destroyed"; "aborted": the
                  \* process has ended (std::abort, or a crash)
  dbOpen,         \* Database: Openable::m_open
  conn,           \* engine connection behind Database::m_handle
  life,           \* Statement object: "unused", "alive", "destroyed"
  m_open,         \* Statement: Openable::m_open
  m_canRead,      \* Statement::m_canRead
  owners,         \* shared_ptr<Statement> handles held by the caller
  resultSets,     \* ResultSet objects whose m_statement is this Statement
  hState,         \* engine: compiled handle "none", "live", "finalized"
  rows,           \* engine: number of rows the compiled query yields
  pos,            \* engine cursor: 0 start, 1..rows on a row, rows+1 done,
                  \*   -1 after an error
  finalizeCalls,  \* history: sqlite3_finalize calls made on the handle
  closeRequested, \* history: close()/finalize() was called explicitly
  seen,           \* history: rows for which execute/next/step returned true
  recycled,       \* history: reset returned true after a step reported done
                  \*   in the current pass over the result
  uaf,            \* history: an engine function got a handle that is not live
  last            \* history: the last operation and how it ended

dbVars == <<dbLife, dbOpen, conn>>
objVars == <<life, m_open, m_canRead, owners, resultSets>>
engVars == <<hState, rows, pos, finalizeCalls>>
vars == <<variant, dbLife, dbOpen, conn, life, m_open, m_canRead, owners,
          resultSets, hState, rows, pos, finalizeCalls, closeRequested,
          seen, recycled, uaf, last>>

\* ---- records of what an operation did -----------------------------------
Ret(b) == IF b THEN "true" ELSE "false"

\* op: operation; s: Statement (0: none); outcome: "ok" or the error kind;
\* ret: returned value; calls: engine functions called, in order;
\* eng: status of the engine call that decided the outcome;
\* code: the code a DatabaseError carries; idx: the parameter index a bind
\* worked with (NoIndex: none).
NoIndex == -1

Rec(op, s, outcome, ret, calls, eng, code) ==
  [op |-> op, s |-> s, outcome |-> outcome, ret |-> ret, calls |-> calls,
   eng |-> eng, code |-> code, idx |-> NoIndex]

Throw(op, s, kind) == Rec(op, s, kind, "none", <<>>, "none", "none")

\* ---- the engine ---------------------------------------------------------
\* sqlite3_step on a handle whose cursor is pos[s]: the next row, or done
\* after the last row; a step after done or after an error starts over.
NextPos(s) == IF pos[s] >= 0 /\ pos[s] <= rows[s] THEN pos[s] + 1 ELSE 1

sqlite3_step(s, e) ==
  IF e = "advance"
    THEN IF NextPos(s) <= rows[s] THEN "ROW" ELSE "DONE"
    ELSE e

\* sqlite3_close refuses (BUSY) while compiled statements are outstanding.
Outstanding == \E s \in Stmts : hState[s] = "live"

sqlite3_close == IF Outstanding THEN "BUSY" ELSE "OK"

\* sqlite3_column_count: the number of columns of the compiled statement;
\* "cols" stands for that number, which is positive for every statement
\* that has ever produced a row.
sqlite3_column_count(s) == "cols"

\* sqlite3_data_count: the number of columns of the current row, 0 when the
\* handle is not on a row (before the first step, after done, after a
\* reset, after a failed step).
sqlite3_data_count(s) ==
  IF pos[s] >= 1 /\ pos[s] <= rows[s] THEN "cols" ELSE "0"

\* what an engine read function returns on the handle of s
ReadResult(s, fn) ==
  CASE fn = "data_count" -> sqlite3_data_count(s)
    [] fn = "column_count" -> sqlite3_column_count(s)
    [] OTHER -> "value"

\* sqlite3_finalize: the handle is gone afterwards.
sqlite3_finalize(s) ==
  /\ hState' = [hState EXCEPT ![s] = "finalized"]
  /\ finalizeCalls' = [finalizeCalls EXCEPT ![s] = @ + 1]
  /\ uaf' = (uaf \/ hState[s] # "live")

\* ---- initial state: Database database; ----------------------------------
Init ==
  /\ variant \in Variants
  /\ dbLife = "alive"
  /\ dbOpen = FALSE
  /\ conn = "none"
  /\ life = [s \in Stmts |-> "unused"]
  /\ m_open = [s \in Stmts |-> FALSE]
  /\ m_canRead = [s \in Stmts |-> FALSE]
  /\ owners = [s \in Stmts |-> 0]
  /\ resultSets = [s \in Stmts |-> 0]
  /\ hState = [s \in Stmts |-> "none"]
  /\ rows = [s \in Stmts |-> 0]
  /\ pos = [s \in Stmts |-> 0]
  /\ finalizeCalls = [s \in Stmts |-> 0]
  /\ closeRequested = [s \in Stmts |-> FALSE]
  /\ seen = [s \in Stmts |-> <<>>]
  /\ recycled = [s \in Stmts |-> FALSE]
  /\ uaf = FALSE
  /\ last = Rec("construct", 0, "ok", "none", <<>>, "none", "none")

\* ---- Database -----------------------------------------------------------
\* Database::open refusing whenever m_handle has ever been set
Open_NoReopen(e) ==
  /\ dbLife = "alive"
  /\ UNCHANGED <<variant, dbLife, objVars, engVars, closeRequested,
                 seen, recycled, uaf>>
  /\ IF dbOpen \/ conn # "none"
       THEN /\ last' = Throw("open", 0, "invalid_state")
            /\ UNCHANGED <<dbOpen, conn>>
       ELSE IF e = "NOMEM"
         THEN /\ last' = Rec("open", 0, "runtime_error", "none",
                             <<"open">>, e, "none")
              /\ UNCHANGED <<dbOpen, conn>>
       ELSE IF e = "OK"
         THEN /\ dbOpen' = TRUE
              /\ conn' = "live"
              /\ last' = Rec("open", 0, "ok", "none", <<"open">>, e, "none")
         ELSE /\ conn' = "closed"
              /\ last' = Rec("open", 0, "db_error", "none",
                             <<"open", "errmsg", "close">>, e, e)
              /\ UNCHANGED dbOpen

\* Database::open without the isOpen test
Open_Reconnects(e) ==
  /\ dbLife = "alive"
  /\ UNCHANGED <<variant, dbLife, objVars, engVars, closeRequested,
                 seen, recycled, uaf>>
  /\ IF e = "NOMEM"
       THEN /\ last' = Rec("open", 0, "runtime_error", "none",
                           <<"open">>, e, "none")
            /\ UNCHANGED <<dbOpen, conn>>
       ELSE IF e = "OK"
         THEN /\ dbOpen' = TRUE
              /\ conn' = "live"
              /\ last' = Rec("open", 0, "ok", "none", <<"open">>, e, "none")
         ELSE /\ conn' = "closed"
              /\ last' = Rec("open", 0, "db_error", "none",
                             <<"open", "errmsg", "close">>, e, e)
              /\ UNCHANGED dbOpen

\* Database::open throwing on failure without sqlite3_close
Open_LeaksOnError(e) ==
  /\ dbLife = "alive"
  /\ UNCHANGED <<variant, dbLife, objVars, engVars, closeRequested,
                 seen, recycled, uaf>>
  /\ IF dbOpen
       THEN /\ last' = Throw("open", 0, "invalid_state")
            /\ UNCHANGED <<dbOpen, conn>>
       ELSE IF e = "NOMEM"
         THEN /\ last' = Rec("open", 0, "runtime_error", "none",
                             <<"open">>, e, "none")
              /\ UNCHANGED <<dbOpen, conn>>
       ELSE IF e = "OK"
         THEN /\ dbOpen' = TRUE
              /\ conn' = "live"
              /\ last' = Rec("open", 0, "ok", "none", <<"open">>, e, "none")
         ELSE /\ conn' = "live"
              /\ last' = Rec("open", 0, "db_error", "none",
                             <<"open", "errmsg">>, e, e)
              /\ UNCHANGED dbOpen

\* Database::open (the same code in both implementations)
Open(e) ==
  /\ dbLife = "alive"
  /\ UNCHANGED <<variant, dbLife, objVars, engVars, closeRequested,
                 seen, recycled, uaf>>
  /\ IF dbOpen
       THEN /\ last' = Throw("open", 0, "invalid_state")
            /\ UNCHANGED <<dbOpen, conn>>
       ELSE IF e = "NOMEM"
         THEN /\ last' = Rec("open", 0, "runtime_error", "none",
                             <<"open">>, e, "none")
              /\ UNCHANGED <<dbOpen, conn>>
       ELSE IF e = "OK"
         THEN /\ dbOpen' = TRUE
              /\ conn' = "live"
              /\ last' = Rec("open", 0, "ok", "none", <<"open">>, e, "none")
         ELSE /\ conn' = "closed"
              /\ last' = Rec("open", 0, "db_error", "none",
                             <<"open", "errmsg", "close">>, e, e)
              /\ UNCHANGED dbOpen

\* Database::close without the isOpen test
Close_Always ==
  /\ dbLife = "alive"
  /\ UNCHANGED <<variant, dbLife, objVars, engVars, closeRequested,
                 seen, recycled, uaf>>
  /\ LET result == sqlite3_close IN
       IF result = "OK"
         THEN /\ dbOpen' = FALSE
              /\ conn' = "closed"
              /\ last' = Rec("dbclose", 0, "ok", "none", <<"close">>,
                             result, "none")
         ELSE /\ last' = Rec("dbclose", 0, "db_error", "none",
                             <<"close">>, result, result)
              /\ UNCHANGED <<dbOpen, conn>>

\* Database::close dropping the result of sqlite3_close, as ~Database does
Close_Swallows ==
  /\ dbLife = "alive"
  /\ UNCHANGED <<variant, dbLife, objVars, engVars, closeRequested,
                 seen, recycled, uaf>>
  /\ IF dbOpen
       THEN LET result == sqlite3_close IN
            /\ dbOpen' = FALSE
            /\ conn' = IF result = "OK" THEN "closed" ELSE conn
            /\ last' = Rec("dbclose", 0, "ok", "none", <<"close">>, result,
                           "none")
       ELSE /\ last' = Rec("dbclose", 0, "ok", "none", <<>>, "none", "none")
            /\ UNCHANGED <<dbOpen, conn>>

\* Database::close with setOpen(false) ahead of the test of the result
Close_MarksClosedOnError ==
  /\ dbLife = "alive"
  /\ UNCHANGED <<variant, dbLife, objVars, engVars, closeRequested,
                 seen, recycled, uaf>>
  /\ IF dbOpen
       THEN LET result == sqlite3_close IN
            IF result = "OK"
              THEN /\ dbOpen' = FALSE
                   /\ conn' = "closed"
                   /\ last' = Rec("dbclose", 0, "ok", "none", <<"close">>,
                                  result, "none")
              ELSE /\ last' = Rec("dbclose", 0, "db_error", "none",
                                  <<"close">>, result, result)
                   /\ dbOpen' = FALSE
                   /\ UNCHANGED conn
       ELSE /\ last' = Rec("dbclose", 0, "ok", "none", <<>>, "none", "none")
            /\ UNCHANGED <<dbOpen, conn>>

\* Database::close (the same code in both implementations)
Close ==
  /\ dbLife = "alive"
  /\ UNCHANGED <<variant, dbLife, objVars, engVars, closeRequested,
                 seen, recycled, uaf>>
  /\ IF dbOpen
       THEN LET result == sqlite3_close IN
            IF result = "OK"
              THEN /\ dbOpen' = FALSE
                   /\ conn' = "closed"
                   /\ last' = Rec("dbclose", 0, "ok", "none", <<"close">>,
                                  result, "none")
              ELSE /\ last' = Rec("dbclose", 0, "db_error", "none",
                                  <<"close">>, result, result)
                   /\ UNCHANGED <<dbOpen, conn>>
       ELSE /\ last' = Rec("dbclose", 0, "ok", "none", <<>>, "none", "none")
            /\ UNCHANGED <<dbOpen, conn>>

\* Database::~Database, sqlitepp.cc: the result of sqlite3_close is ignored
DestroyDatabase ==
  /\ variant = "cc"
  /\ dbLife = "alive"
  /\ dbLife' = "destroyed"
  /\ UNCHANGED <<variant, objVars, engVars, closeRequested,
                 seen, recycled, uaf>>
  /\ IF dbOpen
       THEN /\ conn' = IF sqlite3_close = "OK" THEN "closed" ELSE conn
            /\ dbOpen' = FALSE
            /\ last' = Rec("~Database", 0, "ok", "none", <<"close">>,
                           sqlite3_close, "none")
       ELSE /\ last' = Rec("~Database", 0, "ok", "none", <<>>, "none", "none")
            /\ UNCHANGED <<dbOpen, conn>>

\* Database::~Database, sqlitepp.cpp: a failing sqlite3_close aborts the
\* process, and no call is made after that
LegacyDestroyDatabase ==
  /\ variant = "cpp"
  /\ dbLife = "alive"
  /\ UNCHANGED <<variant, objVars, engVars, closeRequested,
                 seen, recycled, uaf>>
  /\ IF dbOpen
       THEN LET result == sqlite3_close IN
            IF result # "OK"
              THEN /\ dbLife' = "aborted"
                   /\ last' = Rec("~Database", 0, "abort", "none",
                                  <<"close", "errstr">>, result, "none")
                   /\ UNCHANGED <<dbOpen, conn>>
              ELSE /\ dbLife' = "destroyed"
                   /\ dbOpen' = FALSE
                   /\ conn' = "closed"
                   /\ last' = Rec("~Database", 0, "ok", "none", <<"close">>,
                                  result, "none")
       ELSE /\ dbLife' = "destroyed"
            /\ last' = Rec("~Database", 0, "ok", "none", <<>>, "none", "none")
            /\ UNCHANGED <<dbOpen, conn>>

\* Database::execute keeping the compiled handle when the step throws
DbExecute_LeaksOnStepError(e, h, se) ==
  /\ variant = "cc"
  /\ dbLife = "alive"
  /\ e # "OK" => h = NULL
  /\ UNCHANGED <<variant, dbVars, objVars, engVars, closeRequested,
                 seen, recycled, uaf>>
  /\ last' =
       IF ~dbOpen
         THEN Throw("dbexecute", 0, "invalid_state")
       ELSE IF e # "OK"
         THEN Rec("dbexecute", 0, "db_error", "none",
                  <<"prepare_v2", "errmsg">>, e, e)
       ELSE IF h = NULL
         THEN Rec("dbexecute", 0, "runtime_error", "none", <<"prepare_v2">>,
                  e, "none")
       ELSE LET result == IF se = "advance"
                            THEN IF h >= 1 THEN "ROW" ELSE "DONE"
                            ELSE se
            IN IF result \in {"ROW", "DONE"}
                 THEN Rec("dbexecute", 0, "ok", "none",
                          <<"prepare_v2", "step", "finalize">>, result,
                          "none")
                 ELSE Rec("dbexecute", 0, "db_error", "none",
                          <<"prepare_v2", "step">>, result,
                          result)

\* Database::execute, sqlitepp.cc: prepare, one step, and ~Statement when
\* the local shared_ptr goes out of scope, also while an exception unwinds.
\* e, h: as for prepare; se: what the engine does with the step.
DbExecute(e, h, se) ==
  /\ variant = "cc"
  /\ dbLife = "alive"
  /\ e # "OK" => h = NULL
  /\ UNCHANGED <<variant, dbVars, objVars, engVars, closeRequested,
                 seen, recycled, uaf>>
  /\ last' =
       IF ~dbOpen
         THEN Throw("dbexecute", 0, "invalid_state")
       ELSE IF e # "OK"
         THEN Rec("dbexecute", 0, "db_error", "none",
                  <<"prepare_v2", "errmsg">>, e, e)
       ELSE IF h = NULL
         THEN Rec("dbexecute", 0, "runtime_error", "none", <<"prepare_v2">>,
                  e, "none")
       ELSE LET result == IF se = "advance"
                            THEN IF h >= 1 THEN "ROW" ELSE "DONE"
                            ELSE se
            IN IF result \in {"ROW", "DONE"}
                 THEN Rec("dbexecute", 0, "ok", "none",
                          <<"prepare_v2", "step", "finalize">>, result,
                          "none")
                 ELSE Rec("dbexecute", 0, "db_error", "none",
                          <<"prepare_v2", "step", "finalize">>, result,
                          result)

\* Database::execute, sqlitepp.cpp: a Statement on the stack, one step,
\* finalize(); when the step throws, ~Statement finalizes instead.
LegacyDbExecute(e, h, se) ==
  /\ variant = "cpp"
  /\ dbLife = "alive"
  /\ e # "OK" => h = NULL
  /\ UNCHANGED <<variant, dbVars, objVars, engVars, closeRequested,
                 seen, recycled, uaf>>
  /\ last' =
       IF ~dbOpen
         THEN Throw("dbexecute", 0, "invalid_state")
       ELSE IF e # "OK"
         THEN Rec("dbexecute", 0, "db_error", "none",
                  <<"prepare_v2", "errmsg">>, e, e)
       ELSE IF h = NULL
         THEN Rec("dbexecute", 0, "runtime_error", "none", <<"prepare_v2">>,
                  e, "none")
       ELSE LET result == IF se = "advance"
                            THEN IF h >= 1 THEN "ROW" ELSE "DONE"
                            ELSE se
            IN IF result \in {"ROW", "DONE"}
                 THEN Rec("dbexecute", 0, "ok", "none",
                          <<"prepare_v2", "step", "finalize">>, result,
                          "none")
                 ELSE Rec("dbexecute", 0, "db_error", "none",
                          <<"prepare_v2", "step", "finalize">>, result,
                          result)

\* Statement::Statement(sqlite3_stmt*) with the shared_ptr and the
\* ResultSet-less start of its life: open, no row, one owner.
NewStatement(s, n) ==
  /\ life' = [life EXCEPT ![s] = "alive"]
  /\ m_open' = [m_open EXCEPT ![s] = TRUE]
  /\ m_canRead' = [m_canRead EXCEPT ![s] = FALSE]
  /\ owners' = [owners EXCEPT ![s] = 1]
  /\ resultSets' = [resultSets EXCEPT ![s] = 0]
  /\ hState' = [hState EXCEPT ![s] = "live"]
  /\ rows' = [rows EXCEPT ![s] = n]
  /\ pos' = [pos EXCEPT ![s] = 0]
  /\ finalizeCalls' = [finalizeCalls EXCEPT ![s] = 0]
  /\ closeRequested' = [closeRequested EXCEPT ![s] = FALSE]
  /\ seen' = [seen EXCEPT ![s] = <<>>]
  /\ recycled' = [recycled EXCEPT ![s] = FALSE]

\* Database::prepare without requireOpen
Prepare_NoRequireOpen(s, e, h) ==
  /\ variant = "cc"
  /\ dbLife = "alive"
  /\ life[s] # "alive"
  /\ e # "OK" => h = NULL
  /\ UNCHANGED <<variant, dbVars, uaf>>
  /\ IF e # "OK"
         THEN /\ last' = Rec("prepare", s, "db_error", "none",
                             <<"prepare_v2", "errmsg">>, e, e)
              /\ UNCHANGED <<objVars, engVars, closeRequested, seen, recycled>>
       ELSE IF h = NULL
         THEN /\ last' = Rec("prepare", s, "runtime_error", "none",
                             <<"prepare_v2">>, e, "none")
              /\ UNCHANGED <<objVars, engVars, closeRequested, seen, recycled>>
         ELSE /\ NewStatement(s, h)
              /\ last' = Rec("prepare", s, "ok", "none", <<"prepare_v2">>,
                             e, "none")

\* Database::prepare disconnecting on a compile error, as open does on a
\* failed connect
Prepare_DisconnectsOnError(s, e, h) ==
  /\ variant = "cc"
  /\ dbLife = "alive"
  /\ life[s] # "alive"
  /\ e # "OK" => h = NULL
  /\ UNCHANGED <<variant, dbLife, uaf>>
  /\ dbOpen' = (dbOpen /\ e = "OK")
  /\ conn' = IF dbOpen /\ e # "OK" THEN "closed" ELSE conn
  /\ IF ~dbOpen
       THEN /\ last' = Throw("prepare", s, "invalid_state")
            /\ UNCHANGED <<objVars, engVars, closeRequested, seen, recycled>>
       ELSE IF e # "OK"
         THEN /\ last' = Rec("prepare", s, "db_error", "none",
                             <<"prepare_v2", "errmsg">>, e, e)
              /\ UNCHANGED <<objVars, engVars, closeRequested, seen, recycled>>
       ELSE IF h = NULL
         THEN /\ last' = Rec("prepare", s, "runtime_error", "none",
                             <<"prepare_v2">>, e, "none")
              /\ UNCHANGED <<objVars, engVars, closeRequested, seen, recycled>>
         ELSE /\ NewStatement(s, h)
              /\ last' = Rec("prepare", s, "ok", "none", <<"prepare_v2">>,
                             e, "none")

\* Database::prepare, sqlitepp.cc.  e: status of sqlite3_prepare_v2,
\* h: the handle it stored (NULL, or a query of h rows).
Prepare(s, e, h) ==
  /\ variant = "cc"
  /\ dbLife = "alive"
  /\ life[s] # "alive"
  /\ e # "OK" => h = NULL
  /\ UNCHANGED <<variant, dbVars, uaf>>
  /\ IF ~dbOpen
       THEN /\ last' = Throw("prepare", s, "invalid_state")
            /\ UNCHANGED <<objVars, engVars, closeRequested, seen, recycled>>
       ELSE IF e # "OK"
         THEN /\ last' = Rec("prepare", s, "db_error", "none",
                             <<"prepare_v2", "errmsg">>, e, e)
              /\ UNCHANGED <<objVars, engVars, closeRequested, seen, recycled>>
       ELSE IF h = NULL
         THEN /\ last' = Rec("prepare", s, "runtime_error", "none",
                             <<"prepare_v2">>, e, "none")
              /\ UNCHANGED <<objVars, engVars, closeRequested, seen, recycled>>
         ELSE /\ NewStatement(s, h)
              /\ last' = Rec("prepare", s, "ok", "none", <<"prepare_v2">>,
                             e, "none")

\* Statement::Statement(Database&, const std::string&), sqlitepp.cpp
LegacyPrepare(s, e, h) ==
  /\ variant = "cpp"
  /\ dbLife = "alive"
  /\ life[s] # "alive"
  /\ e # "OK" => h = NULL
  /\ UNCHANGED <<variant, dbVars, uaf>>
  /\ IF ~dbOpen
       THEN /\ last' = Throw("prepare", s, "invalid_state")
            /\ UNCHANGED <<objVars, engVars, closeRequested, seen, recycled>>
       ELSE IF e # "OK"
         THEN /\ last' = Rec("prepare", s, "db_error", "none",
                             <<"prepare_v2", "errmsg">>, e, e)
              /\ UNCHANGED <<objVars, engVars, closeRequested, seen, recycled>>
       ELSE IF h = NULL
         THEN /\ last' = Rec("prepare", s, "runtime_error", "none",
                             <<"prepare_v2">>, e, "none")
              /\ UNCHANGED <<objVars, engVars, closeRequested, seen, recycled>>
         ELSE /\ NewStatement(s, h)
              /\ last' = Rec("prepare", s, "ok", "none", <<"prepare_v2">>,
                             e, "none")

\* ---- Statement, sqlitepp.cc ----------------------------------------------
\* Openable::requireOpen on a Statement
requireOpen(s) == m_open[s]

\* Statement::requireCanRead
requireCanRead(s) == m_canRead[s]

\* The rows the caller has visited once a step has returned b with the
\* cursor at p: a pass over the result starts at the first step after the
\* start, after done or after an error.
Visit(s, b, p) ==
  LET base == IF pos[s] >= 0 /\ pos[s] <= rows[s] THEN seen[s] ELSE <<>>
  IN  IF b THEN Append(base, p) ELSE base

\* Statement::step returning the flag as it was before the engine call
step_StaleReturn(s, op, e) ==
  IF ~requireOpen(s)
    THEN /\ last' = Throw(op, s, "invalid_state")
         /\ UNCHANGED <<m_canRead, pos, seen, uaf>>
    ELSE LET result == sqlite3_step(s, e) IN
         /\ uaf' = (uaf \/ hState[s] # "live")
         /\ pos' = [pos EXCEPT ![s] = IF e = "advance" THEN NextPos(s) ELSE -1]
         /\ IF result = "ROW"
              THEN m_canRead' = [m_canRead EXCEPT ![s] = TRUE]
              ELSE IF result = "DONE"
                THEN m_canRead' = [m_canRead EXCEPT ![s] = FALSE]
                ELSE UNCHANGED m_canRead
         /\ IF result \in {"ROW", "DONE"}
              THEN /\ last' = Rec(op, s, "ok", Ret(m_canRead[s]), <<"step">>,
                                  result, "none")
                   /\ seen' = [seen EXCEPT ![s] =
                                 Visit(s, m_canRead[s], pos'[s])]
              ELSE /\ last' = Rec(op, s, "db_error", "none", <<"step">>,
                                  result, result)
                   /\ UNCHANGED seen

\* Statement::step without the SQLITE_DONE branch's assignment
step_NoClearOnDone(s, op, e) ==
  IF ~requireOpen(s)
    THEN /\ last' = Throw(op, s, "invalid_state")
         /\ UNCHANGED <<m_canRead, pos, seen, uaf>>
    ELSE LET result == sqlite3_step(s, e) IN
         /\ uaf' = (uaf \/ hState[s] # "live")
         /\ pos' = [pos EXCEPT ![s] = IF e = "advance" THEN NextPos(s) ELSE -1]
         /\ IF result = "ROW"
              THEN m_canRead' = [m_canRead EXCEPT ![s] = TRUE]
              ELSE UNCHANGED m_canRead
         /\ IF result \in {"ROW", "DONE"}
              THEN /\ last' = Rec(op, s, "ok", Ret(m_canRead'[s]), <<"step">>,
                                  result, "none")
                   /\ seen' = [seen EXCEPT ![s] =
                                 Visit(s, m_canRead'[s], pos'[s])]
              ELSE /\ last' = Rec(op, s, "db_error", "none", <<"step">>,
                                  result, result)
                   /\ UNCHANGED seen

\* Statement::step clearing m_canRead before it throws
step_ClearOnError(s, op, e) ==
  IF ~requireOpen(s)
    THEN /\ last' = Throw(op, s, "invalid_state")
         /\ UNCHANGED <<m_canRead, pos, seen, uaf>>
    ELSE LET result == sqlite3_step(s, e) IN
         /\ uaf' = (uaf \/ hState[s] # "live")
         /\ pos' = [pos EXCEPT ![s] = IF e = "advance" THEN NextPos(s) ELSE -1]
         /\ m_canRead' = [m_canRead EXCEPT ![s] = (result = "ROW")]
         /\ IF result \in {"ROW", "DONE"}
              THEN /\ last' = Rec(op, s, "ok", Ret(m_canRead'[s]), <<"step">>,
                                  result, "none")
                   /\ seen' = [seen EXCEPT ![s] =
                                 Visit(s, m_canRead'[s], pos'[s])]
              ELSE /\ last' = Rec(op, s, "db_error", "none", <<"step">>,
                                  result, result)
                   /\ UNCHANGED seen

\* Statement::step.  e: what the engine does with this step.
step(s, op, e) ==
  IF ~requireOpen(s)
    THEN /\ last' = Throw(op, s, "invalid_state")
         /\ UNCHANGED <<m_canRead, pos, seen, uaf>>
    ELSE LET result == sqlite3_step(s, e) IN
         /\ uaf' = (uaf \/ hState[s] # "live")
         /\ pos' = [pos EXCEPT ![s] = IF e = "advance" THEN NextPos(s) ELSE -1]
         /\ IF result = "ROW"
              THEN m_canRead' = [m_canRead EXCEPT ![s] = TRUE]
              ELSE IF result = "DONE"
                THEN m_canRead' = [m_canRead EXCEPT ![s] = FALSE]
                ELSE UNCHANGED m_canRead
         /\ IF result \in {"ROW", "DONE"}
              THEN /\ last' = Rec(op, s, "ok", Ret(m_canRead'[s]), <<"step">>,
                                  result, "none")
                   /\ seen' = [seen EXCEPT ![s] =
                                 Visit(s, m_canRead'[s], pos'[s])]
              ELSE /\ last' = Rec(op, s, "db_error", "none", <<"step">>,
                                  result, result)
                   /\ UNCHANGED seen

\* m_instancePointer.lock() is non-null: the weak_ptr set by prepare names
\* the control block that the shared_ptr handles and the ResultSets share.
lock(s) == owners[s] + resultSets[s] > 0

\* Statement::execute handing out a ResultSet that shares nothing (built
\* from a plain pointer), so that it is not counted among the holders
Execute_PlainPointer(s, e) ==
  /\ variant = "cc"
  /\ dbLife # "aborted"
  /\ life[s] = "alive"
  /\ owners[s] > 0
  /\ resultSets[s] < MaxResultSets
  /\ step(s, "execute", e)
  /\ UNCHANGED resultSets
  /\ UNCHANGED <<variant, dbVars, life, m_open, owners, hState, rows,
                 finalizeCalls, closeRequested, recycled>>

\* Statement::execute: one step, then a ResultSet on the locked
\* m_instancePointer.
Execute(s, e) ==
  /\ variant = "cc"
  /\ dbLife # "aborted"
  /\ life[s] = "alive"
  /\ owners[s] > 0
  /\ resultSets[s] < MaxResultSets
  /\ step(s, "execute", e)
  /\ resultSets' = [resultSets EXCEPT ![s] =
                      IF last'.outcome = "ok" THEN @ + 1 ELSE @]
  /\ UNCHANGED <<variant, dbVars, life, m_open, owners, hState, rows,
                 finalizeCalls, closeRequested, recycled>>

\* ResultSet::next answering from the flag, without a step
Next_NoStep(s, e) ==
  /\ variant = "cc"
  /\ dbLife # "aborted"
  /\ life[s] = "alive"
  /\ resultSets[s] > 0
  /\ last' = IF requireOpen(s)
               THEN Rec("next", s, "ok", Ret(m_canRead[s]), <<>>, "none",
                        "none")
               ELSE Throw("next", s, "invalid_state")
  /\ UNCHANGED <<variant, dbVars, objVars, engVars, closeRequested,
                 seen, recycled, uaf>>

\* ResultSet::next
Next_(s, e) ==
  /\ variant = "cc"
  /\ dbLife # "aborted"
  /\ life[s] = "alive"
  /\ resultSets[s] > 0
  /\ step(s, "next", e)
  /\ UNCHANGED <<variant, dbVars, life, m_open, owners, resultSets, hState,
                 rows, finalizeCalls, closeRequested, recycled>>

\* history: the Statement has been through a pass that a step ended with
\* done and a reset() that returned true
Recycle(s, e) ==
  [recycled EXCEPT ![s] = @ \/ (e = "OK" /\ pos[s] = rows[s] + 1)]

\* Statement::reset returning true without sqlite3_reset
reset_NoEngineCall(s, op, e) ==
  IF ~requireOpen(s)
    THEN /\ last' = Throw(op, s, "invalid_state")
         /\ UNCHANGED <<pos, seen, recycled, uaf>>
    ELSE /\ recycled' = Recycle(s, "OK")
         /\ last' = Rec(op, s, "ok", "true", <<>>, "none", "none")
         /\ UNCHANGED <<pos, seen, uaf>>

\* Statement::reset throwing a DatabaseError when sqlite3_reset fails
reset_Throws(s, op, e) ==
  IF ~requireOpen(s)
    THEN /\ last' = Throw(op, s, "invalid_state")
         /\ UNCHANGED <<pos, seen, recycled, uaf>>
    ELSE /\ uaf' = (uaf \/ hState[s] # "live")
         /\ pos' = [pos EXCEPT ![s] = IF e = "OK" THEN 0 ELSE -1]
         /\ seen' = [seen EXCEPT ![s] = <<>>]
         /\ recycled' = Recycle(s, e)
         /\ last' = IF e = "OK"
                      THEN Rec(op, s, "ok", "true", <<"reset">>, e, "none")
                      ELSE Rec(op, s, "db_error", "none", <<"reset">>, e, e)

\* Statement::reset without requireOpen
reset_NoRequireOpen(s, op, e) ==
  /\ uaf' = (uaf \/ hState[s] # "live")
  /\ pos' = [pos EXCEPT ![s] = IF e = "OK" THEN 0 ELSE -1]
  /\ seen' = [seen EXCEPT ![s] = <<>>]
  /\ recycled' = Recycle(s, e)
  /\ last' = Rec(op, s, "ok", Ret(e = "OK"), <<"reset">>, e, "none")

\* Statement::reset.  e: status of sqlite3_reset.
reset(s, op, e) ==
  IF ~requireOpen(s)
    THEN /\ last' = Throw(op, s, "invalid_state")
         /\ UNCHANGED <<pos, seen, recycled, uaf>>
    ELSE /\ uaf' = (uaf \/ hState[s] # "live")
         /\ pos' = [pos EXCEPT ![s] = IF e = "OK" THEN 0 ELSE -1]
         /\ seen' = [seen EXCEPT ![s] = <<>>]
         /\ recycled' = Recycle(s, e)
         /\ last' = Rec(op, s, "ok", Ret(e = "OK"), <<"reset">>, e, "none")

Reset(s, e) ==
  /\ variant = "cc"
  /\ dbLife # "aborted"
  /\ life[s] = "alive"
  /\ owners[s] > 0
  /\ reset(s, "reset", e)
  /\ UNCHANGED <<variant, dbVars, objVars, hState, rows, finalizeCalls,
                 closeRequested>>

\* Statement::close without setOpen(false)
close_KeepsOpen(s, op, e) ==
  /\ closeRequested' = [closeRequested EXCEPT ![s] = TRUE]
  /\ IF m_open[s]
       THEN /\ sqlite3_finalize(s)
            /\ UNCHANGED m_open
            /\ last' = Rec(op, s, "ok", "none", <<"finalize">>, e, "none")
       ELSE /\ last' = Rec(op, s, "ok", "none", <<>>, "none", "none")
            /\ UNCHANGED <<m_open, hState, finalizeCalls, uaf>>

\* Statement::close raising what sqlite3_finalize reports
close_RaisesFinalizeError(s, op, e) ==
  /\ closeRequested' = [closeRequested EXCEPT ![s] = TRUE]
  /\ IF m_open[s]
       THEN /\ sqlite3_finalize(s)
            /\ m_open' = [m_open EXCEPT ![s] = FALSE]
            /\ last' = IF e = "OK"
                         THEN Rec(op, s, "ok", "none", <<"finalize">>, e,
                                  "none")
                         ELSE Rec(op, s, "db_error", "none", <<"finalize">>,
                                  e, e)
       ELSE /\ last' = Rec(op, s, "ok", "none", <<>>, "none", "none")
            /\ UNCHANGED <<m_open, hState, finalizeCalls, uaf>>

\* Statement::close.  e: status of sqlite3_finalize, which the code drops.
close(s, op, e) ==
  /\ closeRequested' = [closeRequested EXCEPT ![s] = TRUE]
  /\ IF m_open[s]
       THEN /\ sqlite3_finalize(s)
            /\ m_open' = [m_open EXCEPT ![s] = FALSE]
            /\ last' = Rec(op, s, "ok", "none", <<"finalize">>, e, "none")
       ELSE /\ last' = Rec(op, s, "ok", "none", <<>>, "none", "none")
            /\ UNCHANGED <<m_open, hState, finalizeCalls, uaf>>

CloseStatement(s, e) ==
  /\ variant = "cc"
  /\ dbLife # "aborted"
  /\ life[s] = "alive"
  /\ owners[s] > 0
  /\ close(s, "close", e)
  /\ UNCHANGED <<variant, dbVars, life, m_canRead, owners, resultSets, rows,
                 pos, seen, recycled>>

\* Statement::handleBindResult.  For RANGE the message is the literal's
\* address plus index: inside the literal for 0..MsgLen, outside it (u: what
\* then happens) for every other index.
handleBindResult(index, result, u) ==
  CASE result = "OK" -> "ok"
    [] result = "RANGE" ->
         IF index >= 0 /\ index <= MsgLen THEN "out_of_range" ELSE u
    [] result = "NOMEM" -> "runtime_error"
    [] OTHER -> "db_error"

\* Statement::bind guarded like a read: requireOpen and requireCanRead
bind_RequiresRow(s, op, kind, pre, index, e, u) ==
  IF ~(requireOpen(s) /\ requireCanRead(s))
    THEN /\ last' = Rec(op, s, "invalid_state", "none", pre, "none", "none")
         /\ UNCHANGED <<uaf, dbLife>>
    ELSE LET outcome == handleBindResult(index, e, u) IN
         /\ uaf' = (uaf \/ hState[s] # "live")
         /\ dbLife' = IF outcome = "crash" THEN "aborted" ELSE dbLife
         /\ last' = [Rec(op, s, outcome, "none",
                         Append(pre, "bind_" \o kind), e,
                         IF outcome = "db_error" THEN e ELSE "none")
                       EXCEPT !.idx = index]

\* Statement::bind(const int, ...) for int, double and std::string.
\* e: status of sqlite3_bind_<kind>.
bind(s, op, kind, pre, index, e, u) ==
  IF ~requireOpen(s)
    THEN /\ last' = Rec(op, s, "invalid_state", "none", pre, "none", "none")
         /\ UNCHANGED <<uaf, dbLife>>
    ELSE LET outcome == handleBindResult(index, e, u) IN
         /\ uaf' = (uaf \/ hState[s] # "live")
         /\ dbLife' = IF outcome = "crash" THEN "aborted" ELSE dbLife
         /\ last' = [Rec(op, s, outcome, "none",
                         Append(pre, "bind_" \o kind), e,
                         IF outcome = "db_error" THEN e ELSE "none")
                       EXCEPT !.idx = index]

BindIndex(s, kind, index, e, u) ==
  /\ variant = "cc"
  /\ dbLife # "aborted"
  /\ life[s] = "alive"
  /\ owners[s] > 0
  /\ bind(s, "bind", kind, <<>>, index, e, u)
  /\ UNCHANGED <<variant, dbOpen, conn, objVars, engVars, closeRequested,
                 seen, recycled>>

\* Statement::bind(const std::string&, ...) with a getParameterIndex that
\* passes the engine's 0 on
BindName_NoZeroCheck(s, kind, index, e) ==
  /\ variant = "cc"
  /\ dbLife # "aborted"
  /\ life[s] = "alive"
  /\ owners[s] > 0
  /\ UNCHANGED <<variant, dbOpen, conn, objVars, engVars, closeRequested,
                 seen, recycled>>
  /\ IF ~requireOpen(s)
       THEN /\ last' = Throw("bindName", s, "invalid_state")
            /\ UNCHANGED <<uaf, dbLife>>
       ELSE bind(s, "bindName", kind, <<"bind_parameter_index">>, index, e,
                 "out_of_range")

\* Statement::bind(const std::string&, ...) through getParameterIndex.
\* index: what sqlite3_bind_parameter_index answers (0: no such name).
BindName(s, kind, index, e) ==
  /\ variant = "cc"
  /\ dbLife # "aborted"
  /\ life[s] = "alive"
  /\ owners[s] > 0
  /\ UNCHANGED <<variant, dbOpen, conn, objVars, engVars, closeRequested,
                 seen, recycled>>
  /\ IF ~requireOpen(s)
       THEN /\ last' = Throw("bindName", s, "invalid_state")
            /\ UNCHANGED <<uaf, dbLife>>
       ELSE IF index = 0
         THEN /\ last' = [Rec("bindName", s, "invalid_argument", "none",
                              <<"bind_parameter_index">>, "none", "none")
                            EXCEPT !.idx = index]
              /\ uaf' = (uaf \/ hState[s] # "live")
              /\ UNCHANGED dbLife
         ELSE bind(s, "bindName", kind, <<"bind_parameter_index">>, index, e,
                   "out_of_range")

\* ---- ResultSet, sqlitepp.cc ---------------------------------------------
\* ResultSet::canRead asking the engine's cursor instead of the flag
CanRead_FromCursor(s) ==
  /\ variant = "cc"
  /\ dbLife # "aborted"
  /\ life[s] = "alive"
  /\ resultSets[s] > 0
  /\ last' = Rec("canRead", s, "ok", Ret(pos[s] >= 1 /\ pos[s] <= rows[s]),
                 <<"data_count">>, "none", "none")
  /\ UNCHANGED <<variant, dbVars, objVars, engVars, closeRequested,
                 seen, recycled, uaf>>

\* ResultSet::canRead
CanRead(s) ==
  /\ variant = "cc"
  /\ dbLife # "aborted"
  /\ life[s] = "alive"
  /\ resultSets[s] > 0
  /\ last' = Rec("canRead", s, "ok", Ret(m_canRead[s]), <<>>, "none", "none")
  /\ UNCHANGED <<variant, dbVars, objVars, engVars, closeRequested,
                 seen, recycled, uaf>>

\* the reads without requireCanRead
read_NoCanRead(s, op, fn) ==
  IF ~requireOpen(s)
    THEN /\ last' = Throw(op, s, "invalid_state")
         /\ UNCHANGED uaf
    ELSE /\ uaf' = (uaf \/ hState[s] # "live")
         /\ last' = Rec(op, s, "ok", ReadResult(s, fn), <<fn>>, "none",
                        "none")

\* the reads without requireOpen
read_NoOpen(s, op, fn) ==
  IF ~requireCanRead(s)
    THEN /\ last' = Throw(op, s, "invalid_state")
         /\ UNCHANGED uaf
    ELSE /\ uaf' = (uaf \/ hState[s] # "live")
         /\ last' = Rec(op, s, "ok", ReadResult(s, fn), <<fn>>, "none",
                        "none")

\* ResultSet::columnCount / readDouble / readInt / readString: fn is the
\* engine function the operation ends in.
read(s, op, fn) ==
  IF ~requireOpen(s) \/ ~requireCanRead(s)
    THEN /\ last' = Throw(op, s, "invalid_state")
         /\ UNCHANGED uaf
    ELSE /\ uaf' = (uaf \/ hState[s] # "live")
         /\ last' = Rec(op, s, "ok", ReadResult(s, fn), <<fn>>, "none",
                        "none")

ReadOps == [columnCount |-> "data_count", readDouble |-> "column_double",
            readInt |-> "column_int", readString |-> "column_text"]

Read(s, op) ==
  /\ variant = "cc"
  /\ dbLife # "aborted"
  /\ life[s] = "alive"
  /\ resultSets[s] > 0
  /\ read(s, op, ReadOps[op])
  /\ UNCHANGED <<variant, dbVars, objVars, engVars, closeRequested,
                 seen, recycled>>

\* ---- shared ownership ---------------------------------------------------
\* Statement::~Statement without the isOpen test
Destructor_Always(s) ==
  /\ life' = [life EXCEPT ![s] = "destroyed"]
  /\ sqlite3_finalize(s)
  /\ m_open' = [m_open EXCEPT ![s] = FALSE]

\* Statement::~Statement
Destructor(s) ==
  /\ life' = [life EXCEPT ![s] = "destroyed"]
  /\ IF m_open[s]
       THEN /\ sqlite3_finalize(s)
            /\ m_open' = [m_open EXCEPT ![s] = FALSE]
       ELSE UNCHANGED <<m_open, hState, finalizeCalls, uaf>>

\* a ResultSet that does not own its Statement (a plain pointer)
Release_OwnersOnly(s, op, o, r) ==
  /\ owners' = [owners EXCEPT ![s] = o]
  /\ resultSets' = [resultSets EXCEPT ![s] = r]
  /\ IF o = 0
       THEN /\ Destructor(s)
            /\ last' = Rec(op, s, "ok", "none",
                           IF m_open[s] THEN <<"finalize">> ELSE <<>>,
                           "none", "none")
       ELSE /\ last' = Rec(op, s, "ok", "none", <<>>, "none", "none")
            /\ UNCHANGED <<life, m_open, hState, finalizeCalls, uaf>>

\* The shared_ptr<Statement> control block after a holder went away or was
\* added: o Statement handles and r ResultSets are left; the object is
\* destroyed with the last of them.
Release(s, op, o, r) ==
  /\ owners' = [owners EXCEPT ![s] = o]
  /\ resultSets' = [resultSets EXCEPT ![s] = r]
  /\ IF o = 0 /\ r = 0
       THEN /\ Destructor(s)
            /\ last' = Rec(op, s, "ok", "none",
                           IF m_open[s] THEN <<"finalize">> ELSE <<>>,
                           "none", "none")
       ELSE /\ last' = Rec(op, s, "ok", "none", <<>>, "none", "none")
            /\ UNCHANGED <<life, m_open, hState, finalizeCalls, uaf>>

\* the caller copies its std::shared_ptr<Statement>
CopyStatement(s) ==
  /\ dbLife # "aborted"
  /\ life[s] = "alive"
  /\ owners[s] > 0
  /\ owners[s] < MaxOwners
  /\ Release(s, "copyStatement", owners[s] + 1, resultSets[s])
  /\ UNCHANGED <<variant, dbVars, m_canRead, rows, pos, closeRequested,
                 seen, recycled>>

\* the caller drops a std::shared_ptr<Statement>
DropStatement(s) ==
  /\ dbLife # "aborted"
  /\ life[s] = "alive"
  /\ owners[s] > 0
  /\ Release(s, "dropStatement", owners[s] - 1, resultSets[s])
  /\ UNCHANGED <<variant, dbVars, m_canRead, rows, pos, closeRequested,
                 seen, recycled>>

\* the caller copies a ResultSet (its m_statement is copied)
CopyResultSet(s) ==
  /\ variant = "cc"
  /\ dbLife # "aborted"
  /\ life[s] = "alive"
  /\ resultSets[s] > 0
  /\ resultSets[s] < MaxResultSets
  /\ Release(s, "copyResultSet", owners[s], resultSets[s] + 1)
  /\ UNCHANGED <<variant, dbVars, m_canRead, rows, pos, closeRequested,
                 seen, recycled>>

\* the caller drops a ResultSet
DropResultSet(s) ==
  /\ variant = "cc"
  /\ dbLife # "aborted"
  /\ life[s] = "alive"
  /\ resultSets[s] > 0
  /\ Release(s, "dropResultSet", owners[s], resultSets[s] - 1)
  /\ UNCHANGED <<variant, dbVars, m_canRead, rows, pos, closeRequested,
                 seen, recycled>>

\* ---- Statement, sqlitepp.cpp ---------------------------------------------
\* Statement::step (public in this implementation)
LegacyStep(s, e) ==
  /\ variant = "cpp"
  /\ dbLife # "aborted"
  /\ life[s] = "alive"
  /\ owners[s] > 0
  /\ UNCHANGED <<variant, dbVars, life, m_open, owners, resultSets, hState,
                 rows, finalizeCalls, closeRequested, recycled>>
  /\ IF ~m_open[s]
       THEN /\ last' = Throw("step", s, "invalid_state")
            /\ UNCHANGED <<m_canRead, pos, seen, uaf>>
       ELSE LET result == sqlite3_step(s, e) IN
            /\ uaf' = (uaf \/ hState[s] # "live")
            /\ pos' = [pos EXCEPT ![s] =
                         IF e = "advance" THEN NextPos(s) ELSE -1]
            /\ IF result = "ROW"
                 THEN /\ m_canRead' = [m_canRead EXCEPT ![s] = TRUE]
                      /\ seen' = [seen EXCEPT ![s] = Visit(s, TRUE, pos'[s])]
                      /\ last' = Rec("step", s, "ok", Ret(m_canRead'[s]),
                                     <<"step">>, result, "none")
                 ELSE IF result = "DONE"
                   THEN /\ m_canRead' = [m_canRead EXCEPT ![s] = FALSE]
                        /\ seen' = [seen EXCEPT ![s] =
                                      Visit(s, FALSE, pos'[s])]
                        /\ last' = Rec("step", s, "ok", Ret(m_canRead'[s]),
                                       <<"step">>, result, "none")
                   ELSE /\ last' = Rec("step", s, "db_error", "none",
                                       <<"step">>, result, result)
                        /\ UNCHANGED <<m_canRead, seen>>

\* Statement::reset of sqlitepp.cpp alone clearing m_canRead
LegacyReset_ClearsCanRead(s, e) ==
  /\ variant = "cpp"
  /\ dbLife # "aborted"
  /\ life[s] = "alive"
  /\ owners[s] > 0
  /\ UNCHANGED <<variant, dbVars, life, m_open, owners, resultSets, hState,
                 rows, finalizeCalls, closeRequested>>
  /\ IF ~m_open[s]
       THEN /\ last' = Throw("reset", s, "invalid_state")
            /\ UNCHANGED <<m_canRead, pos, seen, recycled, uaf>>
       ELSE /\ uaf' = (uaf \/ hState[s] # "live")
            /\ m_canRead' = [m_canRead EXCEPT ![s] = FALSE]
            /\ pos' = [pos EXCEPT ![s] = IF e = "OK" THEN 0 ELSE -1]
            /\ seen' = [seen EXCEPT ![s] = <<>>]
            /\ recycled' = Recycle(s, e)
            /\ last' = Rec("reset", s, "ok", Ret(e = "OK"), <<"reset">>, e,
                           "none")

\* Statement::reset
LegacyReset(s, e) ==
  /\ variant = "cpp"
  /\ dbLife # "aborted"
  /\ life[s] = "alive"
  /\ owners[s] > 0
  /\ UNCHANGED <<variant, dbVars, objVars, hState, rows, finalizeCalls,
                 closeRequested>>
  /\ IF ~m_open[s]
       THEN /\ last' = Throw("reset", s, "invalid_state")
            /\ UNCHANGED <<pos, seen, recycled, uaf>>
       ELSE /\ uaf' = (uaf \/ hState[s] # "live")
            /\ pos' = [pos EXCEPT ![s] = IF e = "OK" THEN 0 ELSE -1]
            /\ seen' = [seen EXCEPT ![s] = <<>>]
            /\ recycled' = Recycle(s, e)
            /\ last' = Rec("reset", s, "ok", Ret(e = "OK"), <<"reset">>, e,
                           "none")

\* Statement::finalize.  e: status of sqlite3_finalize, which the code drops.
LegacyFinalize(s, e) ==
  /\ variant = "cpp"
  /\ dbLife # "aborted"
  /\ life[s] = "alive"
  /\ owners[s] > 0
  /\ UNCHANGED <<variant, dbVars, life, m_canRead, owners, resultSets, rows,
                 pos, seen, recycled>>
  /\ closeRequested' = [closeRequested EXCEPT ![s] = TRUE]
  /\ IF m_open[s]
       THEN /\ sqlite3_finalize(s)
            /\ m_open' = [m_open EXCEPT ![s] = FALSE]
            /\ last' = Rec("close", s, "ok", "none", <<"finalize">>, e,
                           "none")
       ELSE /\ last' = Rec("close", s, "ok", "none", <<>>, "none", "none")
            /\ UNCHANGED <<m_open, hState, finalizeCalls, uaf>>

\* Statement::canRead
LegacyCanRead(s) ==
  /\ variant = "cpp"
  /\ dbLife # "aborted"
  /\ life[s] = "alive"
  /\ owners[s] > 0
  /\ last' = Rec("canRead", s, "ok", Ret(m_canRead[s]), <<>>, "none", "none")
  /\ UNCHANGED <<variant, dbVars, objVars, engVars, closeRequested,
                 seen, recycled, uaf>>

LegacyReadOps == [columnCount |-> "column_count",
                  readDouble |-> "column_double",
                  readInt |-> "column_int", readString |-> "column_text"]

\* Statement::columnCount / readDouble / readInt / readString
LegacyRead(s, op) ==
  /\ variant = "cpp"
  /\ dbLife # "aborted"
  /\ life[s] = "alive"
  /\ owners[s] > 0
  /\ UNCHANGED <<variant, dbVars, objVars, engVars, closeRequested,
                 seen, recycled>>
  /\ IF ~m_open[s] \/ ~m_canRead[s]
       THEN /\ last' = Throw(op, s, "invalid_state")
            /\ UNCHANGED uaf
       ELSE /\ uaf' = (uaf \/ hState[s] # "live")
            /\ last' = Rec(op, s, "ok", ReadResult(s, LegacyReadOps[op]),
                           <<LegacyReadOps[op]>>, "none", "none")

\* ---- the system ---------------------------------------------------------
Next ==
  \/ \E e \in OpenStatus : Open(e)
  \/ Close
  \/ DestroyDatabase
  \/ LegacyDestroyDatabase
  \/ \E s \in Stmts, e \in {"OK", "ERROR"}, h \in {NULL} \cup (0..MaxRows) :
       Prepare(s, e, h)
  \/ \E s \in Stmts, e \in {"OK", "ERROR"}, h \in {NULL} \cup (0..MaxRows) :
       LegacyPrepare(s, e, h)
  \/ \E s \in Stmts, e \in StepInputs : Execute(s, e)
  \/ \E e \in {"OK", "ERROR"}, h \in {NULL} \cup (0..MaxRows),
        se \in StepInputs : DbExecute(e, h, se)
  \/ \E e \in {"OK", "ERROR"}, h \in {NULL} \cup (0..MaxRows),
        se \in StepInputs : LegacyDbExecute(e, h, se)
  \/ \E s \in Stmts, e \in StepInputs : Next_(s, e)
  \/ \E s \in Stmts, e \in {"OK", "MISUSE"} : Reset(s, e)
  \/ \E s \in Stmts, e \in FinalizeStatus : CloseStatement(s, e)
  \/ \E s \in Stmts, k \in BindKinds, i \in BindIndexes, e \in BindStatus,
        u \in WildPointerOutcomes : BindIndex(s, k, i, e, u)
  \/ \E s \in Stmts, k \in BindKinds, i \in {0, 1}, e \in BindStatus :
       BindName(s, k, i, e)
  \/ \E s \in Stmts : CanRead(s)
  \/ \E s \in Stmts, op \in DOMAIN ReadOps : Read(s, op)
  \/ \E s \in Stmts : CopyStatement(s)
  \/ \E s \in Stmts : DropStatement(s)
  \/ \E s \in Stmts : CopyResultSet(s)
  \/ \E s \in Stmts : DropResultSet(s)
  \/ \E s \in Stmts, e \in StepInputs : LegacyStep(s, e)
  \/ \E s \in Stmts, e \in {"OK", "MISUSE"} : LegacyReset(s, e)
  \/ \E s \in Stmts, e \in FinalizeStatus : LegacyFinalize(s, e)
  \/ \E s \in Stmts : LegacyCanRead(s)
  \/ \E s \in Stmts, op \in DOMAIN LegacyReadOps : LegacyRead(s, op)

Spec == Init /\ [][Next]_vars

\* ---- properties ----------------------------------------------------------
StepOps == {"execute", "next", "step"}
ReadOpNames == {"columnCount", "readDouble", "readInt", "readString"}
Min(a, b) == IF a < b THEN a ELSE b

\* C1: a Statement that prepare has just returned is open with canRead
\* false; a step (execute, next, legacy step) for which the engine reported
\* ROW leaves canRead true and returned true; one for which it reported DONE
\* leaves canRead false and returned false; whenever a step returned, its
\* return value is the canRead flag.
C1_StepSetsCanRead ==
  /\ (last.op = "prepare" /\ last.outcome = "ok") =>
        /\ life[last.s] = "alive"
        /\ m_open[last.s]
        /\ ~m_canRead[last.s]
  /\ (last.op \in StepOps /\ last.eng = "ROW") =>
        /\ last.outcome = "ok"
        /\ m_canRead[last.s]
        /\ last.ret = "true"
  /\ (last.op \in StepOps /\ last.eng = "DONE") =>
        /\ last.outcome = "ok"
        /\ ~m_canRead[last.s]
        /\ last.ret = "false"
  /\ (last.op \in StepOps /\ last.outcome = "ok") =>
        last.ret = Ret(m_canRead[last.s])

\* C1 witness: a step reported DONE after the caller had visited a row.
C1_Witness ==
  /\ last.op \in StepOps
  /\ last.eng = "DONE"
  /\ seen[last.s] # <<>>

C3_State ==
  \A s \in Stmts :
    (owners[s] = 0 /\ resultSets[s] > 0) =>
      /\ life[s] = "alive"
      /\ ~uaf
      /\ ~closeRequested[s] =>
           /\ m_open[s]
           /\ hState[s] = "live"
           /\ (last.op = "next" /\ last.s = s) => last.calls = <<"step">>
           /\ (last.op \in ReadOpNames /\ last.s = s /\ m_canRead[s]) =>
                 last.outcome = "ok"
           /\ (last.op = "canRead" /\ last.s = s) =>
                 last.ret = Ret(m_canRead[s])

C3_Step ==
  \A s \in Stmts :
    (owners[s] = 0 /\ resultSets[s] > 0 /\ hState[s] = "live"
       /\ hState'[s] # "live") =>
      /\ last'.op = "dropResultSet"
      /\ resultSets'[s] = 0
      /\ life'[s] = "destroyed"

C3_ResultSetKeepsStatement == []C3_State /\ [][C3_Step]_vars

\* C3 witness: the caller holds no Statement handle any more and has just
\* read a column through the ResultSet.
C3_Witness ==
  /\ last.op = "readInt"
  /\ last.outcome = "ok"
  /\ owners[last.s] = 0
  /\ resultSets[last.s] > 0

AliasOps == {"canRead", "next", "bind", "bindName", "execute", "reset"}
               \cup ReadOpNames

C5_FinalizedOnce ==
  \A s \in Stmts :
    /\ finalizeCalls[s] <= 1
    /\ ~uaf
    /\ (hState[s] = "finalized") = (finalizeCalls[s] = 1)
    /\ (life[s] # "unused") =>
         (hState[s] = "finalized") = (closeRequested[s] \/ life[s] = "destroyed")
    /\ (life[s] = "alive" /\ ~closeRequested[s]) => hState[s] = "live"

\* C5 witness: the Statement was closed explicitly and destroyed afterwards.
C5_Witness ==
  \E s \in Stmts :
    /\ life[s] = "destroyed"
    /\ closeRequested[s]
    /\ finalizeCalls[s] = 1

\* C6: in a pass over a result of rows[s] rows the caller is given the rows
\* 1, 2, ... in order, each once: after k steps of the pass (execute, then
\* next) the rows seen are 1..min(k, rows[s]), canRead and the step's return
\* value are true exactly while k <= rows[s]; so the loop
\* 'while (canRead()) { read; next(); }' ends after rows[s] iterations.
C6_RowsInOrder ==
  \A s \in Stmts :
    (variant = "cc" /\ life[s] = "alive" /\ pos[s] >= 1) =>
      /\ seen[s] = [i \in 1..Min(pos[s], rows[s]) |-> i]
      /\ m_canRead[s] = (pos[s] <= rows[s])
      /\ (last.op \in {"execute", "next"} /\ last.s = s
            /\ last.outcome = "ok") => last.ret = Ret(pos[s] <= rows[s])

\* C6 witness: next() has just returned false after both rows of a two-row
\* result were visited.
C6_Witness ==
  /\ variant = "cc"
  /\ last.op = "next"
  /\ last.ret = "false"
  /\ rows[last.s] = 2
  /\ seen[last.s] = <<1, 2>>
  /\ ~m_canRead[last.s]

\* What one Statement::step does for engine input e: the flag and the
\* cursor afterwards.
OneStep(s, e) ==
  /\ last'.calls = <<"step">>
  /\ last'.eng = sqlite3_step(s, e)
  /\ pos'[s] = (IF e = "advance" THEN NextPos(s) ELSE -1)
  /\ m_canRead'[s] = (IF e = "advance" THEN NextPos(s) <= rows[s]
                                         ELSE m_canRead[s])
  /\ IF e = "advance"
       THEN last'.outcome = "ok" /\ last'.ret = Ret(NextPos(s) <= rows[s])
       ELSE last'.outcome = "db_error" /\ last'.code = e

\* C7: execute() on an open Statement makes exactly one engine step and, if
\* it returns, adds one ResultSet on that same Statement object and handle;
\* next() on an open Statement makes exactly one engine step, with the
\* effect and return value of one Statement::step, and adds no holder.
C7_Step ==
  \A s \in Stmts :
    /\ (last'.op = "execute" /\ last'.s = s /\ m_open[s]) =>
         /\ \E e \in StepInputs : OneStep(s, e)
         /\ resultSets'[s] = resultSets[s] + (IF last'.outcome = "ok" THEN 1
                                                                     ELSE 0)
         /\ UNCHANGED <<owners, life, hState, rows, finalizeCalls, m_open>>
    /\ (last'.op = "next" /\ last'.s = s /\ m_open[s]) =>
         /\ \E e \in StepInputs : OneStep(s, e)
         /\ UNCHANGED <<owners, resultSets, life, hState, rows,
                        finalizeCalls, m_open>>

C7_ExecuteAndNextStepOnce == [][C7_Step]_vars

\* C7 witness: execute() returned a second ResultSet on the same Statement.
C7_Witness ==
  /\ last.op = "execute"
  /\ last.outcome = "ok"
  /\ resultSets[last.s] = 2
  /\ hState[last.s] = "live"

\* C8 as stated: after reset() has returned true canRead is false.
C8_ResetClearsCanRead ==
  (last.op = "reset" /\ last.ret = "true") => ~m_canRead[last.s]

\* C9: reset() raises only on a closed Statement (invalid-state, no engine
\* call); on an open one it calls sqlite3_reset once and returns whether
\* that reported OK, and when it did not, it returns false and the open flag
\* and the canRead flag are as before.
C9_Step ==
  \A s \in Stmts :
    (last'.op = "reset" /\ last'.s = s) =>
      IF ~m_open[s]
        THEN last'.outcome = "invalid_state" /\ last'.calls = <<>>
        ELSE /\ last'.outcome = "ok"
             /\ last'.calls = <<"reset">>
             /\ last'.ret = Ret(last'.eng = "OK")
             /\ last'.eng # "OK" =>
                  /\ last'.ret = "false"
                  /\ m_open'[s] = m_open[s]
                  /\ m_canRead'[s] = m_canRead[s]

C10_Step ==
  \A s \in Stmts :
    (last'.op \in StepOps /\ last'.s = s
       /\ last'.eng \notin {"ROW", "DONE", "none"}) =>
      /\ last'.outcome = "db_error"
      /\ last'.code = last'.eng
      /\ m_open[s] /\ m_open'[s]
      /\ m_canRead'[s] = m_canRead[s]
      /\ resultSets'[s] = resultSets[s]
      /\ life'[s] = life[s]

C10_StepErrorKeepsState == [][C10_Step]_vars

\* C10 witness: execute() failed with MISUSE on a Statement positioned on a
\* row, which still reports the row.
C10_Witness ==
  /\ last.op = "execute"
  /\ last.outcome = "db_error"
  /\ last.code = "MISUSE"
  /\ m_canRead[last.s]

\* C11: Statement::close (finalize in sqlitepp.cpp) never raises, whether
\* the Statement is open without a row, open on a row or already closed,
\* and whatever sqlite3_finalize reports; afterwards the Statement is
\* closed, and an open one had its handle finalized by exactly one call.
C11_Step ==
  \A s \in Stmts :
    (last'.op = "close" /\ last'.s = s) =>
      /\ last'.outcome = "ok"
      /\ ~m_open'[s]
      /\ life'[s] = life[s]
      /\ m_canRead'[s] = m_canRead[s]
      /\ m_open[s] =>
           /\ last'.calls = <<"finalize">>
           /\ last'.eng \in FinalizeStatus
           /\ hState'[s] = "finalized"

C11_CloseNeverRaises == [][C11_Step]_vars

\* C11 witness: close() returned normally on a Statement positioned on a
\* row although sqlite3_finalize reported an error.
C11_Witness ==
  /\ last.op = "close"
  /\ last.outcome = "ok"
  /\ last.eng = "CONSTRAINT"
  /\ ~m_open[last.s]
  /\ m_canRead[last.s]

\* C12 as stated: no close() of a Statement or of a Database raises, and
\* each leaves the object closed.
C12_Original ==
  /\ last.op = "close" => (last.outcome = "ok" /\ ~m_open[last.s])
  /\ last.op = "dbclose" => (last.outcome = "ok" /\ ~dbOpen)

\* C12: close() of a Statement never raises and leaves it closed, the first
\* time and the second; close() of a Database that is already closed (never
\* opened, or closed by an earlier close()) never raises and leaves it
\* closed; the second call makes no engine call in either case.  The close()
\* of an open Database raises exactly when sqlite3_close refuses, and the
\* Database then stays open.
C12_Step ==
  /\ \A s \in Stmts :
       (last'.op = "close" /\ last'.s = s) =>
         /\ last'.outcome = "ok"
         /\ ~m_open'[s]
         /\ ~m_open[s] => (last'.calls = <<>> /\ UNCHANGED engVars)
  /\ last'.op = "dbclose" =>
       IF ~dbOpen
         THEN /\ last'.outcome = "ok"
              /\ last'.calls = <<>>
              /\ ~dbOpen'
              /\ conn' = conn
         ELSE /\ last'.calls = <<"close">>
              /\ IF last'.eng = "OK"
                   THEN last'.outcome = "ok" /\ ~dbOpen'
                   ELSE last'.outcome = "db_error" /\ dbOpen'

C12_SecondCloseIsNoOp == [][C12_Step]_vars

\* C12 witness: close() on a Database that an earlier close() had closed
\* (a Statement exists, so the Database had been open).
C12_Witness ==
  /\ last.op = "dbclose"
  /\ last.outcome = "ok"
  /\ last.calls = <<>>
  /\ conn = "closed"
  /\ \E s \in Stmts : life[s] # "unused"

\* C13: canRead() of a ResultSet is the canRead flag of its Statement: it
\* returns that flag, calls no engine function and changes nothing, however
\* many ResultSets the Statement has handed out; the flag is the only
\* cursor state, so a next() through one ResultSet is what every ResultSet
\* of the Statement reports afterwards.
C13_State ==
  last.op = "canRead" =>
    /\ last.outcome = "ok"
    /\ last.ret = Ret(m_canRead[last.s])
    /\ last.calls = <<>>

C13_Step ==
  /\ last'.op = "canRead" => UNCHANGED <<dbVars, objVars, engVars>>
  /\ \A s \in Stmts :
       (last'.op = "next" /\ last'.s = s /\ last'.outcome = "ok") =>
         /\ last'.ret = Ret(m_canRead'[s])
         /\ resultSets'[s] = resultSets[s]

C13_ResultSetHasNoCursor == []C13_State /\ [][C13_Step]_vars

\* C13 witness: with two ResultSets of one Statement, canRead() answered
\* true on the second row, i.e. after a next() had moved the Statement.
C13_Witness ==
  /\ variant = "cc"
  /\ last.op = "canRead"
  /\ last.ret = "true"
  /\ resultSets[last.s] = 2
  /\ pos[last.s] = 2

BindOps == {"bind", "bindName"}

BindCalls == {"bind_" \o k : k \in BindKinds}

\* C14: bind by index and bind by name, for int, double and text, are
\* refused with invalid-state exactly when the Statement is closed, and then
\* before any engine call (by name: before sqlite3_bind_parameter_index);
\* on an open Statement they reach the engine whether canRead is set or not.
C14_Step ==
  \A s \in Stmts :
    (last'.op \in BindOps /\ last'.s = s) =>
      IF m_open[s]
        THEN /\ last'.outcome # "invalid_state"
             /\ last'.calls # <<>>
             /\ last'.outcome # "invalid_argument" =>
                  last'.calls[Len(last'.calls)] \in BindCalls
        ELSE /\ last'.outcome = "invalid_state"
             /\ last'.calls = <<>>
             /\ last'.idx = NoIndex

C15_Step ==
  \A s \in Stmts :
    (last'.op = "bindName" /\ last'.s = s /\ last'.idx = 0) =>
      /\ last'.outcome = "invalid_argument"
      /\ last'.calls = <<"bind_parameter_index">>
      /\ m_open[s] /\ m_open'[s]
      /\ m_canRead'[s] = m_canRead[s]
      /\ UNCHANGED engVars

C15_UnknownNameIsInvalidArgument == [][C15_Step]_vars

\* C15 witness: an unknown name was refused on a Statement positioned on a
\* row, which is still open and still reports the row.
C15_Witness ==
  /\ last.op = "bindName"
  /\ last.idx = 0
  /\ last.outcome = "invalid_argument"
  /\ m_open[last.s]
  /\ m_canRead[last.s]

\* C16 as stated: a bind by index that reached the engine returns normally
\* for OK, raises out-of-range for RANGE, the allocation error for NOMEM
\* and a DatabaseError carrying the status for every other status.
C16_BindStatusMapping ==
  (last.op = "bind" /\ last.eng # "none") =>
    CASE last.eng = "OK" -> last.outcome = "ok"
      [] last.eng = "RANGE" -> last.outcome = "out_of_range"
      [] last.eng = "NOMEM" -> last.outcome = "runtime_error"
      [] OTHER -> last.outcome = "db_error" /\ last.code = last.eng

\* C17: a reset() that returned true leaves the Statement open on a live
\* handle with the cursor before the first row, whatever happened before;
\* and on an open Statement that has been through execute-reported-done and
\* reset-returned-true, bind by index and by name still reach the engine
\* and a step from the rewound cursor is one fresh sqlite3_step that starts
\* the pass again.  So the cycle bind, execute, reset repeats without end.
C17_State ==
  \A s \in Stmts :
    (last.op = "reset" /\ last.s = s /\ last.ret = "true") =>
      /\ last.calls = <<"reset">>
      /\ m_open[s]
      /\ hState[s] = "live"
      /\ pos[s] = 0

C17_Step ==
  \A s \in Stmts :
    (recycled[s] /\ m_open[s] /\ last'.s = s) =>
      /\ last'.op \in BindOps =>
           /\ last'.outcome # "invalid_state"
           /\ last'.calls # <<>>
           /\ m_open'[s]
           /\ pos'[s] = pos[s]
      /\ (last'.op \in StepOps /\ pos[s] = 0) =>
           /\ last'.calls = <<"step">>
           /\ last'.eng = "DONE" =>
                (rows[s] = 0 /\ last'.outcome = "ok" /\ pos'[s] = 1)
           /\ last'.eng = "ROW" =>
                (rows[s] > 0 /\ last'.outcome = "ok" /\ pos'[s] = 1)
           /\ m_open'[s]

C17_BindExecuteResetRepeats == []C17_State /\ [][C17_Step]_vars

\* C17 witness: on a Statement that had already been executed to done and
\* reset, a further execute() stepped the engine and reported done again.
C17_Witness ==
  /\ last.op = "execute"
  /\ recycled[last.s]
  /\ last.outcome = "ok"
  /\ last.eng = "DONE"
  /\ last.calls = <<"step">>
  /\ m_open[last.s]

OpenFailures == {"runtime_error", "db_error"}

\* C18: the Database starts closed; an open() that the engine answers with
\* OK ends with the Database open on a live connection, from the never
\* opened state and from the closed-again state alike; a close() that
\* returns ends with it closed; so open and close alternate without end.
C18_State ==
  /\ last.op = "construct" => (~dbOpen /\ conn = "none")
  /\ (last.op = "open" /\ last.outcome = "ok") => (dbOpen /\ conn = "live")
  /\ (last.op = "dbclose" /\ last.outcome = "ok") =>
       (~dbOpen /\ conn # "live")

C18_Step ==
  /\ (~dbOpen /\ last'.op = "open") =>
       /\ last'.outcome # "invalid_state"
       /\ last'.calls # <<>> /\ last'.calls[1] = "open"
       /\ last'.eng = "OK" => (last'.outcome = "ok" /\ dbOpen')
  /\ (dbOpen /\ last'.op = "dbclose" /\ last'.eng = "OK") =>
       (last'.outcome = "ok" /\ ~dbOpen')

C18_OpenCloseAlternate == []C18_State /\ [][C18_Step]_vars

\* C18 witness: open() succeeded on a Database that had been open before
\* (it prepared a Statement) and was closed in between.
C18_Witness ==
  /\ last.op = "open"
  /\ last.outcome = "ok"
  /\ dbOpen
  /\ \E s \in Stmts : life[s] # "unused"

\* C19: open() on an open Database ends in invalid-state without an engine
\* call and changes nothing: the Database is open on the same live
\* connection, every Statement and handle is as before, and the prepare or
\* close() that follows is not refused.
C19_Step ==
  /\ (dbOpen /\ last'.op = "open") =>
       /\ last'.outcome = "invalid_state"
       /\ last'.calls = <<>>
       /\ dbOpen'
       /\ conn = "live" /\ conn' = conn
       /\ UNCHANGED <<objVars, engVars>>
  /\ (last.op = "open" /\ last.outcome = "invalid_state") =>
       /\ last'.op = "prepare" =>
            (last'.outcome # "invalid_state" /\ last'.calls # <<>>)
       /\ last'.op = "dbclose" => last'.calls = <<"close">>

C19_SecondOpenRefused == [][C19_Step]_vars

\* C19 witness: open() was refused on an open Database that has a live
\* Statement, and the handle of that Statement is still live.
C19_Witness ==
  /\ last.op = "open"
  /\ last.outcome = "invalid_state"
  /\ dbOpen
  /\ conn = "live"
  /\ \E s \in Stmts : hState[s] = "live"

\* C20: an open() on a closed Database for which sqlite3_open stores no
\* handle ends in the allocation error after that one call; one for which
\* it stores a handle and reports a status other than OK reads the message,
\* disconnects the handle and then ends in a DatabaseError with that
\* status; either way the Database is closed with no live connection, and
\* the next open() that the engine answers with OK succeeds.
C20_Step ==
  /\ (~dbOpen /\ last'.op = "open" /\ last'.eng # "OK") =>
       /\ IF last'.eng = "NOMEM"
            THEN /\ last'.outcome = "runtime_error"
                 /\ last'.calls = <<"open">>
                 /\ conn' = conn
            ELSE /\ last'.outcome = "db_error"
                 /\ last'.code = last'.eng
                 /\ last'.calls = <<"open", "errmsg", "close">>
                 /\ conn' = "closed"
       /\ ~dbOpen'
       /\ conn' # "live"
  /\ (last.op = "open" /\ last.outcome \in OpenFailures
        /\ last'.op = "open" /\ last'.eng = "OK") =>
       (last'.outcome = "ok" /\ dbOpen' /\ conn' = "live")

C20_FailedOpenLeavesClosed == [][C20_Step]_vars

\* C20 witness: open() failed with CANTOPEN; the Database is closed and its
\* connection has been disconnected.
C20_Witness ==
  /\ last.op = "open"
  /\ last.outcome = "db_error"
  /\ last.code = "CANTOPEN"
  /\ last.calls = <<"open", "errmsg", "close">>
  /\ ~dbOpen
  /\ conn = "closed"

\* C21: close() on an open Database calls sqlite3_close exactly once; when
\* that reports anything but OK (BUSY while a compiled Statement is
\* outstanding) the call ends in a DatabaseError with that code and the
\* Database is still open on its live connection; when it reports OK the
\* Database is closed and the connection disconnected.
C21_Step ==
  (dbOpen /\ last'.op = "dbclose") =>
    /\ last'.calls = <<"close">>
    /\ last'.eng = sqlite3_close
    /\ IF last'.eng = "OK"
         THEN /\ last'.outcome = "ok"
              /\ ~dbOpen'
              /\ conn' = "closed"
         ELSE /\ last'.outcome = "db_error"
              /\ last'.code = last'.eng
              /\ dbOpen'
              /\ conn' = "live"
              /\ \E s \in Stmts : hState[s] = "live"

C21_CloseRaisesWhenRefused == [][C21_Step]_vars

\* C21 witness: close() was refused with BUSY while a Statement was still
\* open, and the Database is open.
C21_Witness ==
  /\ last.op = "dbclose"
  /\ last.outcome = "db_error"
  /\ last.code = "BUSY"
  /\ dbOpen
  /\ \E s \in Stmts : m_open[s]

\* C22 as stated: the destruction of a Database never aborts or raises,
\* and leaves no live connection behind.
C22_DestructionClosesQuietly ==
  last.op = "~Database" =>
    /\ last.outcome = "ok"
    /\ dbLife = "destroyed"
    /\ conn # "live"

\* C23 as stated: sqlite3_close is only ever called on a connection that
\* is live (so none is disconnected twice), and no connection is live once
\* the Database has been destroyed.
C23_State == dbLife = "destroyed" => conn # "live"

C23_Step ==
  (last'.op \in {"dbclose", "~Database"} /\ last'.calls # <<>>) =>
    conn = "live"

C23_ReleasedExactlyOnce == []C23_State /\ [][C23_Step]_vars

StatementOps == StepOps \cup BindOps \cup ReadOpNames \cup {"reset"}

\* C24 as stated: while the Database is closed, by close() or by its
\* destruction, no bind, step, execute, next, reset or read on a Statement
\* succeeds or calls the engine.
C24_StatementsInvalidAfterClose ==
  (~dbOpen /\ last.op \in StatementOps) =>
    /\ last.outcome = "invalid_state"
    /\ last.calls = <<>>

\* C25: Database::execute on a closed Database ends in invalid-state with
\* no engine call; on an open one it compiles once; a compile error or a
\* missing handle ends the call with that error and no step; otherwise it
\* steps exactly once and finalizes the handle it compiled, whether the
\* step returned (a row or done) or raised a DatabaseError with the
\* engine's code; and it changes nothing else.
C25_State ==
  last.op = "dbexecute" =>
    IF ~dbOpen
      THEN last.outcome = "invalid_state" /\ last.calls = <<>>
      ELSE /\ last.calls # <<>> /\ last.calls[1] = "prepare_v2"
           /\ last.outcome \in {"ok", "db_error", "runtime_error"}
           /\ "step" \in {last.calls[i] : i \in DOMAIN last.calls} =>
                /\ last.calls = <<"prepare_v2", "step", "finalize">>
                /\ last.outcome = IF last.eng \in {"ROW", "DONE"}
                                    THEN "ok" ELSE "db_error"
                /\ last.outcome = "db_error" => last.code = last.eng
           /\ "step" \notin {last.calls[i] : i \in DOMAIN last.calls} =>
                /\ "finalize" \notin {last.calls[i] : i \in DOMAIN last.calls}
                /\ last.outcome # "ok"
                /\ last.outcome = "db_error" => last.code = last.eng

C25_Step ==
  last'.op = "dbexecute" => UNCHANGED <<dbVars, objVars, engVars>>

C26_Step ==
  \A s \in Stmts :
    (last'.op = "prepare" /\ last'.s = s) =>
      /\ IF ~dbOpen
           THEN last'.outcome = "invalid_state" /\ last'.calls = <<>>
           ELSE /\ last'.calls # <<>> /\ last'.calls[1] = "prepare_v2"
                /\ last'.outcome \in {"ok", "db_error", "runtime_error"}
                /\ (last'.eng # "OK") = (last'.outcome = "db_error")
                /\ last'.outcome = "db_error" =>
                     /\ last'.code = last'.eng
                     /\ last'.calls = <<"prepare_v2", "errmsg">>
      /\ last'.outcome # "ok" =>
           /\ UNCHANGED <<objVars, engVars>>
           /\ life'[s] # "alive"
      /\ last'.outcome = "ok" =>
           /\ life'[s] = "alive"
           /\ m_open'[s]
           /\ ~m_canRead'[s]
           /\ owners'[s] = 1
           /\ resultSets'[s] = 0
           /\ hState'[s] = "live"
           /\ finalizeCalls'[s] = 0
           /\ pos'[s] = 0

C27_State ==
  \A s \in Stmts :
    /\ (life[s] = "alive") = lock(s)
    /\ resultSets[s] > 0 => life[s] = "alive"

C27_Step ==
  \A s \in Stmts :
    (last'.op = "execute" /\ last'.s = s) =>
      /\ lock(s)
      /\ life[s] = "alive" /\ life'[s] = "alive"
      /\ resultSets'[s] =
           resultSets[s] + (IF last'.outcome = "ok" THEN 1 ELSE 0)

C28_OpenIffHandleLive ==
  /\ ~uaf
  /\ \A s \in Stmts :
       life[s] # "unused" =>
         /\ m_open[s] = (hState[s] = "live")
         /\ ~m_open[s] = (hState[s] = "finalized")
         /\ finalizeCalls[s] = (IF m_open[s] THEN 0 ELSE 1)
         /\ life[s] = "destroyed" => ~m_open[s]

\* C28 witness: the last holder of a Statement that close() had already
\* finalized was dropped, and the destructor did not finalize again.
C28_Witness ==
  /\ last.op \in {"dropStatement", "dropResultSet"}
  /\ life[last.s] = "destroyed"
  /\ closeRequested[last.s]
  /\ last.calls = <<>>
  /\ finalizeCalls[last.s] = 1

\* C29: while the Database object is alive, isOpen() is true exactly when
\* it holds a live engine connection: a failed open leaves it closed with
\* the connection disconnected (or never made), a refused close leaves it
\* open on the live connection.
C29_OpenIffConnected ==
  dbLife = "alive" =>
    /\ dbOpen = (conn = "live")
    /\ (last.op = "open" /\ last.outcome # "ok"
          /\ last.outcome # "invalid_state") => ~dbOpen
    /\ (last.op = "dbclose" /\ last.outcome # "ok") => dbOpen

\* C29 witness: a refused close() on a live Database, still open and
\* still connected.
C29_Witness ==
  /\ dbLife = "alive"
  /\ last.op = "dbclose"
  /\ last.outcome = "db_error"
  /\ dbOpen
  /\ conn = "live"

\* C30 as stated: canRead() asked through a ResultSet whose Statement is
\* closed answers false.
C30_ClosedMeansCannotRead ==
  (variant = "cc" /\ last.op = "canRead" /\ ~m_open[last.s]) =>
    last.ret = "false"

FrameOps ==
  StatementOps \cup {"canRead", "close", "copyStatement", "dropStatement",
                     "copyResultSet", "dropResultSet", "prepare", "dbexecute"}

\* C31: no operation on a Statement or a ResultSet (bind, step, execute,
\* next, reset, the reads, canRead, close, copies and drops with the
\* destruction they bring) and neither Database::prepare nor
\* Database::execute, succeeding or failing, changes the open flag of the
\* Database or its connection.
C31_Step ==
  last'.op \in FrameOps => (dbOpen' = dbOpen /\ conn' = conn)

C31_StatementOpsLeaveDatabase == [][C31_Step]_vars

\* C31 witness: a compile error in prepare on an open Database, which is
\* still open on its live connection.
C31_Witness ==
  /\ last.op = "prepare"
  /\ last.outcome = "db_error"
  /\ dbOpen
  /\ conn = "live"

ValueReads == {"readDouble", "readInt", "readString"}

\* What Statement::step, reset, finalize, canRead and the value reads of
\* sqlitepp.cpp did in this step is what the code of sqlitepp.cc does from
\* the same state with the same engine answer: the same flags, cursor,
\* return value and error.
C32_SameAsCurrent(s) ==
  /\ last'.op = "step" => \E e \in StepInputs : step(s, "step", e)
  /\ last'.op = "reset" => \E e \in {"OK", "MISUSE"} : reset(s, "reset", e)
  /\ last'.op = "close" => \E e \in FinalizeStatus : close(s, "close", e)
  /\ last'.op \in ValueReads => read(s, last'.op, ReadOps[last'.op])
  /\ last'.op = "canRead" =>
       /\ last'.outcome = "ok"
       /\ last'.ret = Ret(m_canRead[s])
  /\ last'.op \in {"step", "reset", "close", "canRead"} \cup ReadOpNames =>
       /\ m_open'[s] = (m_open[s] /\ last'.op # "close")
       /\ last'.op # "step" => m_canRead'[s] = m_canRead[s]
       /\ last'.op \notin {"step", "reset"} => pos'[s] = pos[s]
       /\ last'.outcome \in {"ok", "db_error", "invalid_state"}

\* C32 as stated: the two implementations agree on every operation,
\* columnCount included: what Statement::columnCount of sqlitepp.cpp
\* returns is what ResultSet::columnCount of sqlitepp.cc returns from the
\* same state.
C32_OriginalStep ==
  \A s \in Stmts :
    (variant = "cpp" /\ last'.s = s) =>
      /\ C32_SameAsCurrent(s)
      /\ last'.op = "columnCount" =>
           /\ last'.outcome =
                (IF requireOpen(s) /\ requireCanRead(s)
                   THEN "ok" ELSE "invalid_state")
           /\ last'.outcome = "ok" => last'.ret = sqlite3_data_count(s)

C32_Original == [][C32_OriginalStep]_vars

\* C32: step/next, reset, finalize/close, canRead and readDouble, readInt,
\* readString are the same state machine in both implementations; so is
\* columnCount as to when it raises, and as to what it returns while the
\* handle is on a row; off a row with canRead still set (after a failed
\* step or a reset) sqlitepp.cpp returns the statement's column count and
\* sqlitepp.cc returns 0.
C32_Step ==
  \A s \in Stmts :
    (variant = "cpp" /\ last'.s = s) =>
      /\ C32_SameAsCurrent(s)
      /\ last'.op = "columnCount" =>
           /\ last'.outcome =
                (IF requireOpen(s) /\ requireCanRead(s)
                   THEN "ok" ELSE "invalid_state")
           /\ last'.outcome = "ok" =>
                IF pos[s] >= 1 /\ pos[s] <= rows[s]
                  THEN last'.ret = sqlite3_data_count(s)
                  ELSE /\ last'.ret = sqlite3_column_count(s)
                       /\ sqlite3_data_count(s) = "0"

C32_LegacyMatchesCurrent == [][C32_Step]_vars

\* C32 witness: in sqlitepp.cpp a step failed on a Statement positioned
\* on a row, and columnCount still answered with the column count.
C32_Witness ==
  /\ variant = "cpp"
  /\ last.op = "columnCount"
  /\ last.outcome = "ok"
  /\ last.ret = "cols"
  /\ pos[last.s] = -1

====
